---- MODULE Spec2Model ----
(***************************************************************************)
(* Model of the speech-data preparation pipeline.                          *)
(*                                                                         *)
(*   pipeline/Data_cleaning/cleaning_fn.py   trim_with_vad: the batch      *)
(*       that walks an input tree, trims leading and trailing silence of   *)
(*       every matching file and writes it to a mirrored output tree.      *)
(*   pipeline/Data_loading/loader.py         DataLoader.run: merges the    *)
(*       Common Voice split tables into one table deduplicated by 'path'.  *)
(*                                                                         *)
(* Time is counted in whole seconds on a grid 0..MaxTime; pydub positions  *)
(* are milliseconds.  A file's content carries the answer the (external,   *)
(* deterministic) voice-activity detector gives for it.                    *)
(***************************************************************************)
EXTENDS Integers, Sequences, FiniteSets, TLC

VARIABLES
    input_dir, output_dir, file_ext,  \* arguments of trim_with_vad
    fs,           \* files of the file system: path -> content
    dirs,         \* directories of the file system
    nodirs,       \* environment: directories that cannot be created
    nowrites,     \* environment: file paths that cannot be written
    model_ok,     \* environment: the pretrained model can be loaded
    pc,           \* position of trim_with_vad
    pipeline,     \* the VAD pipeline object: "none" or "ready"
    loads,        \* number of detector set-ups in this run
    stack,        \* os.walk: directories still to visit
    root,         \* os.walk: directory being listed
    files,        \* os.walk: file names of root not yet looked at
    local,        \* local variables of the loop body
    tasks,        \* one record per qualifying file, in walk order
    log,          \* lines printed, in order
    written,      \* output paths exported in this run
    made,         \* directories created in this run
    rerun,        \* FALSE in the first batch run, TRUE in the second
    snap,         \* the file system at the start of this run, the tasks of the run before
    lpc,          \* position of DataLoader.run
    unread,       \* rows in the tables of the input directory not read yet
    idx,          \* position in files_to_include
    dfs,          \* the tables read so far
    durations_df, \* clip_durations.tsv as read
    combined_df,  \* the combined table
    before_drop,  \* its length before duplicates are dropped
    out_file,     \* complete_data.tsv: its lines, <<>> while it does not exist
    artifact      \* metadata of the logged artifact

cfgVars  == <<input_dir, output_dir, file_ext, nodirs, nowrites, model_ok>>
walkVars == <<stack, root, files>>
vars == <<input_dir, output_dir, file_ext, fs, dirs, nodirs, nowrites, model_ok,
          pc, pipeline, loads, stack, root, files, local, tasks, log, written,
          made, rerun, snap, lpc, unread, idx, dfs, durations_df, combined_df,
          before_drop, out_file, artifact>>
batchVars == <<input_dir, output_dir, file_ext, fs, dirs, nodirs, nowrites, model_ok,
               pc, pipeline, loads, stack, root, files, local, tasks, log, written,
               made, rerun, snap>>
loaderVars == <<lpc, unread, idx, dfs, durations_df, combined_df, before_drop,
                out_file, artifact>>

----------------------------------------------------------------------------
(* Bounds *)

MaxTime == 4
MaxSegments == 2
MaxRows == 3

----------------------------------------------------------------------------
(* Strings and paths *)

Min(a, b) == IF a <= b THEN a ELSE b
Max(a, b) == IF a >= b THEN a ELSE b

\* str.lower on one character
LowerChar(c) ==
    CASE c = "A" -> "a" [] c = "B" -> "b" [] c = "K" -> "k" [] c = "V" -> "v"
      [] c = "W" -> "w" [] OTHER -> c

\* str.lower
Lower(s) == [i \in DOMAIN s |-> LowerChar(s[i])]

\* str.endswith
EndsWith(s, suffix) ==
    /\ Len(suffix) <= Len(s)
    /\ SubSeq(s, Len(s) - Len(suffix) + 1, Len(s)) = suffix

\* a substring test in place of endswith
QualifiesContains(filename, ext) ==
    \E i \in 1..Len(filename) :
        /\ i + Len(ext) - 1 <= Len(filename)
        /\ SubSeq(Lower(filename), i, i + Len(ext) - 1) = Lower(ext)

\* filename.lower().endswith(file_ext.lower())
Qualifies(filename, ext) == EndsWith(Lower(filename), Lower(ext))

\* os.path.join(root, filename)
JoinPath(d, filename) == [dir |-> d, name |-> filename]

IsPrefix(d, e) == Len(d) <= Len(e) /\ SubSeq(e, 1, Len(d)) = d

\* os.path.relpath(input_path, input_dir), for a path under input_dir
RelPath(p, base) == [dir |-> SubSeq(p.dir, Len(base) + 1, Len(p.dir)), name |-> p.name]

\* os.path.join(output_dir, rel_path)
ReRoot(outdir, rel) == [dir |-> outdir \o rel.dir, name |-> rel.name]

\* a set as a sequence, in the order the directory scan returns it
SetToSeq(S) ==
    CHOOSE s \in [1..Cardinality(S) -> S] : \A i, j \in DOMAIN s : i # j => s[i] # s[j]

\* the file names os.walk lists for directory d
ListFiles(d) == SetToSeq({p.name : p \in {q \in DOMAIN fs : q.dir = d}})

\* the subdirectories os.walk lists for directory d
ListDirs(d) == SetToSeq({e \in dirs : Len(e) = Len(d) + 1 /\ IsPrefix(d, e)})

\* the directories os.makedirs(d) would have to create, outermost first
Missing(d) == SelectSeq([k \in 1..Len(d) |-> SubSeq(d, 1, k)], LAMBDA e : e \notin dirs)

\* position in Missing(d) of the first directory that cannot be created, or 0
FirstBad(d) ==
    LET m == Missing(d)
        bad == {k \in DOMAIN m : m[k] \in nodirs}
    IN IF bad = {} THEN 0 ELSE CHOOSE k \in bad : \A j \in bad : k <= j

----------------------------------------------------------------------------
(* Audio *)

Interval(s, e) == [start |-> s, end |-> e]

\* speech intervals with start < end, ascending, with silence between them
ProperTimelines ==
    {tl \in UNION {[1..n -> {Interval(s, e) : s, e \in 0..MaxTime}] : n \in 0..MaxSegments} :
        /\ \A i \in DOMAIN tl : tl[i].start < tl[i].end
        /\ \A i \in DOMAIN tl : i < Len(tl) => tl[i].end < tl[i + 1].start}

\* the single-instant timeline
InstantTimelines == {<<Interval(t, t)>> : t \in 0..MaxTime}

Timelines == ProperTimelines \cup InstantTimelines

Pcm(d, tl, v) == [kind |-> "pcm", dur |-> d, speech |-> tl, vad |-> v]
Corrupt == [kind |-> "corrupt", dur |-> 0, speech |-> <<>>, vad |-> FALSE]
NoAudio == [kind |-> "none", dur |-> 0, speech |-> <<>>, vad |-> FALSE]

\* what a source file can hold: a corrupt or zero-byte file, a recording the
\* detector fails on, a recording of MaxTime seconds with any timeline
Audios ==
    {Corrupt, Pcm(MaxTime, <<>>, FALSE)} \cup {Pcm(MaxTime, tl, TRUE) : tl \in Timelines}

NoSegment == [audio |-> NoAudio, from |-> 0, to |-> 0]

\* AudioSegment(data=audio_data_int16.tobytes(), ...): positions in milliseconds
FullSegment(audio) == [audio |-> audio, from |-> 0, to |-> audio.dur * 1000]

\* the detector's answer for a file
Detect(audio) == audio.speech

\* speech_timeline[0].start
EarliestStart(tl) == tl[1].start

\* the end of the first interval instead of the last
LatestEndOfFirst(tl) == tl[1].end

\* speech_timeline[-1].end
LatestEnd(tl) == tl[Len(tl)].end

\* full_audio_segment[start_ms:end_ms] (pydub clamps both ends to the length)
Slice(seg, start_ms, end_ms) ==
    LET n == seg.to - seg.from
        a == Min(start_ms, n)
        b == Min(end_ms, n)
    IN [audio |-> seg.audio, from |-> seg.from + a, to |-> seg.from + Max(a, b)]

\* the speech of a clip cut from a recording: the detector is a function of content
ClipSpeech(tl, a, b) ==
    LET inside == SelectSeq(tl, LAMBDA iv : Min(iv.end, b) > Max(iv.start, a))
    IN [i \in DOMAIN inside |->
            Interval(Max(inside[i].start, a) - a, Min(inside[i].end, b) - a)]

\* the content of the file export writes for a segment
Encode(seg) ==
    Pcm((seg.to - seg.from) \div 1000,
        ClipSpeech(seg.audio.speech, seg.from \div 1000, seg.to \div 1000),
        seg.audio.vad)

\* a file opened for appending keeps what it held
StoreAppend(old, new) ==
    IF old.kind = "pcm" THEN Pcm(old.dur + new.dur, old.speech, old.vad) ELSE new

\* export opens the file "wb+": what it held is replaced
Store(old, new) == new

----------------------------------------------------------------------------
(* The tree the batch is run on: in/a.wav, in/a.wav.bak, in/sub/B.WAV.  What   *)
(* the two recordings hold, where the output goes, and at most one place of  *)
(* the output tree that cannot be created or written, are fixed at the start *)
(* and stay the same for both runs.                                          *)

NameA == <<"a", ".", "w", "a", "v">>
NameB == <<"B", ".", "W", "A", "V">>
NameN == <<"a", ".", "w", "a", "v", ".", "b", "a", "k">>

InDir == <<"in">>
SubDir == <<"in", "sub">>

PathA == JoinPath(InDir, NameA)
PathB == JoinPath(SubDir, NameB)
PathN == JoinPath(InDir, NameN)

FileExts == {<<".", "w", "a", "v">>, <<".", "W", "A", "V">>}

OutDirs == {<<"out">>, <<"in", "out">>}

NoLocal ==
    [input_path |-> PathN, output_path |-> PathN, audio_data |-> NoAudio,
     full_audio_segment |-> NoSegment, speech_timeline |-> <<>>,
     start_ms |-> 0, end_ms |-> 0, trimmed_segment |-> NoSegment]

InitBatch ==
    /\ input_dir = InDir
    /\ output_dir \in OutDirs
    /\ file_ext \in FileExts
    /\ \E a, b \in Audios :
          fs = [p \in {PathA, PathB, PathN} |->
                  IF p = PathA THEN a ELSE IF p = PathB THEN b ELSE Corrupt]
    /\ dirs = {InDir, SubDir}
    /\ \E d \in {{}} \cup {{output_dir}, {output_dir \o <<"sub">>}} :
       \E w \in {{}} \cup {{ReRoot(output_dir, RelPath(p, InDir))} : p \in {PathA, PathB}} :
          /\ d = {} \/ w = {}
          /\ nodirs = d
          /\ nowrites = w
    /\ model_ok \in BOOLEAN
    /\ pc = "load"
    /\ pipeline = "none"
    /\ loads = 0
    /\ stack = <<>>
    /\ root = <<>>
    /\ files = <<>>
    /\ local = NoLocal
    /\ tasks = <<>>
    /\ log = <<>>
    /\ written = {}
    /\ made = {}
    /\ rerun = FALSE
    /\ snap = [fs |-> fs, tasks |-> <<>>]

----------------------------------------------------------------------------
(* trim_with_vad *)

Cur == Len(tasks)

Advance(state, stage) ==
    [tasks EXCEPT ![Cur].state = state, ![Cur].stages = Append(@, stage)]

\* an except clause that swallows the exception without printing
CaughtSilently(stage, cause) ==
    /\ tasks' = [tasks EXCEPT ![Cur].state = "Failed", ![Cur].raised = stage]
    /\ log' = log
    /\ pc' = "walk"

\* except Exception as e: print(f"Error processing {input_path}: {e}")
Caught(stage, cause) ==
    /\ tasks' = [tasks EXCEPT ![Cur].state = "Failed", ![Cur].raised = stage]
    /\ log' = Append(log, [kind |-> "error", path |-> local.input_path, cause |-> cause])
    /\ pc' = "walk"

\* Model.from_pretrained, VoiceActivityDetection, pipeline.instantiate
LoadDetector ==
    /\ pc = "load"
    /\ IF model_ok
         THEN /\ pipeline' = "ready"
              /\ loads' = loads + 1
              /\ pc' = "walk"
              /\ stack' = <<input_dir>>
         ELSE /\ pc' = "aborted"
              /\ UNCHANGED <<pipeline, loads, stack>>
    /\ UNCHANGED loaderVars
    /\ UNCHANGED <<cfgVars, fs, dirs, root, files, local, tasks, log, written, made,
                   rerun, snap>>

\* os.walk yields the next directory
WalkDir ==
    /\ pc = "walk"
    /\ files = <<>>
    /\ stack # <<>>
    /\ root' = Head(stack)
    /\ files' = ListFiles(Head(stack))
    /\ stack' = ListDirs(Head(stack)) \o Tail(stack)
    /\ UNCHANGED loaderVars
    /\ UNCHANGED <<cfgVars, fs, dirs, pc, pipeline, loads, local, tasks, log, written,
                   made, rerun, snap>>

\* a file name that does not end with the extension
SkipFile ==
    /\ pc = "walk"
    /\ files # <<>>
    /\ ~Qualifies(Head(files), file_ext)
    /\ files' = Tail(files)
    /\ UNCHANGED loaderVars
    /\ UNCHANGED <<cfgVars, fs, dirs, pc, pipeline, loads, stack, root, local, tasks,
                   log, written, made, rerun, snap>>

\* a qualifying file: input_path, rel_path, output_path
Discover ==
    /\ pc = "walk"
    /\ files # <<>>
    /\ Qualifies(Head(files), file_ext)
    /\ LET input_path == JoinPath(root, Head(files))
           rel_path == RelPath(input_path, input_dir)
           output_path == ReRoot(output_dir, rel_path)
       IN /\ local' = [NoLocal EXCEPT !.input_path = input_path,
                                      !.output_path = output_path]
          /\ tasks' = Append(tasks, [input_path |-> input_path,
                                     output_path |-> output_path,
                                     state |-> "Discovered", stages |-> <<>>,
                                     raised |-> "none", timeline |-> <<>>,
                                     window |-> Interval(0, 0)])
    /\ files' = Tail(files)
    /\ pc' = "mkdir"
    /\ UNCHANGED loaderVars
    /\ UNCHANGED <<cfgVars, fs, dirs, pipeline, loads, stack, root, log, written, made,
                   rerun, snap>>

\* os.makedirs(os.path.dirname(output_path), exist_ok=True), outside the try:
\* the missing directories are created outermost first, up to one that cannot be
MakeDirs ==
    /\ pc = "mkdir"
    /\ LET m == Missing(local.output_path.dir)
           k == FirstBad(local.output_path.dir)
           new == IF k = 0 THEN {m[i] : i \in DOMAIN m} ELSE {m[i] : i \in 1..(k - 1)}
       IN /\ dirs' = dirs \cup new
          /\ made' = made \cup new
          /\ IF k = 0
               THEN /\ pc' = "decode"
                    /\ tasks' = [tasks EXCEPT ![Cur].stages = Append(@, "mkdir")]
               ELSE /\ pc' = "aborted"
                    /\ tasks' = [tasks EXCEPT ![Cur].raised = "mkdir"]
    /\ UNCHANGED loaderVars
    /\ UNCHANGED <<cfgVars, fs, pipeline, loads, walkVars, local, log, written, rerun,
                   snap>>

\* the decoded audio handed to the detector with the conversion left out
DecodeSkipConvert ==
    /\ pc = "decode"
    /\ IF fs[local.input_path].kind = "pcm"
         THEN /\ local' = [local EXCEPT !.audio_data = fs[local.input_path]]
              /\ tasks' = Advance("Decoded", "decode")
              /\ pc' = "detect"
              /\ UNCHANGED log
         ELSE /\ Caught("decode", "DecodeError")
              /\ UNCHANGED local
    /\ UNCHANGED loaderVars
    /\ UNCHANGED <<cfgVars, fs, dirs, pipeline, loads, walkVars, written, made, rerun,
                   snap>>

\* librosa.load(input_path, sr=None, mono=True)
Decode ==
    /\ pc = "decode"
    /\ IF fs[local.input_path].kind = "pcm"
         THEN /\ local' = [local EXCEPT !.audio_data = fs[local.input_path]]
              /\ tasks' = Advance("Decoded", "decode")
              /\ pc' = "convert"
              /\ UNCHANGED log
         ELSE /\ Caught("decode", "DecodeError")
              /\ UNCHANGED local
    /\ UNCHANGED loaderVars
    /\ UNCHANGED <<cfgVars, fs, dirs, pipeline, loads, walkVars, written, made, rerun,
                   snap>>

\* np.int16(audio_data * 32767) and the AudioSegment built from it
Convert ==
    /\ pc = "convert"
    /\ local' = [local EXCEPT !.full_audio_segment = FullSegment(local.audio_data)]
    /\ tasks' = Advance("Decoded", "convert")
    /\ pc' = "detect"
    /\ UNCHANGED loaderVars
    /\ UNCHANGED <<cfgVars, fs, dirs, pipeline, loads, walkVars, log, written, made,
                   rerun, snap>>

\* the pipeline built again for every file
DetectSpeechReloading ==
    /\ pc = "detect"
    /\ model_ok
    /\ pipeline' = "ready"
    /\ loads' = loads + 1
    /\ IF fs[local.input_path].vad
         THEN /\ local' = [local EXCEPT !.speech_timeline = Detect(fs[local.input_path])]
              /\ tasks' = [Advance("Detected", "detect") EXCEPT
                             ![Cur].timeline = Detect(fs[local.input_path])]
              /\ pc' = "resolve"
              /\ UNCHANGED log
         ELSE /\ Caught("detect", "DetectorError")
              /\ UNCHANGED local
    /\ UNCHANGED loaderVars
    /\ UNCHANGED <<cfgVars, fs, dirs, walkVars, written, made, rerun, snap>>

\* vad_result = pipeline(input_path); speech_timeline = vad_result.get_timeline()
DetectSpeech ==
    /\ pc = "detect"
    /\ pipeline = "ready"
    /\ IF fs[local.input_path].vad
         THEN /\ local' = [local EXCEPT !.speech_timeline = Detect(fs[local.input_path])]
              /\ tasks' = [Advance("Detected", "detect") EXCEPT
                             ![Cur].timeline = Detect(fs[local.input_path])]
              /\ pc' = "resolve"
              /\ UNCHANGED log
         ELSE /\ Caught("detect", "DetectorError")
              /\ UNCHANGED local
    /\ UNCHANGED loaderVars
    /\ UNCHANGED <<cfgVars, fs, dirs, pipeline, loads, walkVars, written, made, rerun,
                   snap>>

\* the test of line 82 left out: every timeline goes on to the slice
HasSpeechAlways(tl) == TRUE

\* len(speech_timeline) == 0 is the "no speech" case
HasSpeech(tl) == Len(tl) # 0

\* lines 82-94: the empty timeline is skipped, else the window is resolved;
\* speech_timeline[0] of an empty timeline raises IndexError
Resolve ==
    /\ pc = "resolve"
    /\ IF ~HasSpeech(local.speech_timeline)
         THEN /\ log' = Append(log, [kind |-> "nospeech", path |-> local.input_path,
                                     cause |-> "none"])
              /\ tasks' = Advance("NoSpeechSkipped", "resolve")
              /\ pc' = "walk"
              /\ UNCHANGED local
         ELSE IF Len(local.speech_timeline) = 0
         THEN /\ Caught("resolve", "IndexError")
              /\ UNCHANGED local
         ELSE /\ local' = [local EXCEPT
                             !.start_ms = EarliestStart(local.speech_timeline) * 1000,
                             !.end_ms = LatestEnd(local.speech_timeline) * 1000]
              /\ tasks' = [Advance("Detected", "resolve") EXCEPT
                             ![Cur].window =
                                 Interval(EarliestStart(local.speech_timeline),
                                          LatestEnd(local.speech_timeline))]
              /\ pc' = "slice"
              /\ UNCHANGED log
    /\ UNCHANGED loaderVars
    /\ UNCHANGED <<cfgVars, fs, dirs, pipeline, loads, walkVars, written, made, rerun,
                   snap>>

\* trimmed_segment = full_audio_segment[start_ms:end_ms]
SliceAudio ==
    /\ pc = "slice"
    /\ local' = [local EXCEPT !.trimmed_segment =
                     Slice(local.full_audio_segment, local.start_ms, local.end_ms)]
    /\ tasks' = Advance("Trimmed", "slice")
    /\ pc' = "export"
    /\ UNCHANGED loaderVars
    /\ UNCHANGED <<cfgVars, fs, dirs, pipeline, loads, walkVars, log, written, made,
                   rerun, snap>>

\* trimmed_segment.export(output_path, format="wav"); a path that cannot be
\* opened for writing raises and keeps what it held
Export ==
    /\ pc = "export"
    /\ IF local.output_path \notin nowrites
         THEN /\ fs' = [p \in DOMAIN fs \cup {local.output_path} |->
                          IF p = local.output_path
                            THEN Store(IF p \in DOMAIN fs THEN fs[p] ELSE NoAudio,
                                       Encode(local.trimmed_segment))
                            ELSE fs[p]]
              /\ written' = written \cup {local.output_path}
              /\ tasks' = Advance("Exported", "export")
              /\ pc' = "walk"
              /\ UNCHANGED log
         ELSE /\ Caught("export", "EncodeError")
              /\ UNCHANGED <<fs, written>>
    /\ UNCHANGED loaderVars
    /\ UNCHANGED <<cfgVars, dirs, pipeline, loads, walkVars, local, made, rerun, snap>>

\* os.walk is exhausted: trim_with_vad returns
Finish ==
    /\ pc = "walk"
    /\ files = <<>>
    /\ stack = <<>>
    /\ pc' = "done"
    /\ UNCHANGED loaderVars
    /\ UNCHANGED <<cfgVars, fs, dirs, pipeline, loads, walkVars, local, tasks, log,
                   written, made, rerun, snap>>

\* the batch is run a second time on the tree as the first run left it
Restart ==
    /\ pc \in {"done", "aborted"}
    /\ ~rerun
    /\ rerun' = TRUE
    /\ snap' = [fs |-> fs, tasks |-> tasks]
    /\ pc' = "load"
    /\ pipeline' = "none"
    /\ loads' = 0
    /\ stack' = <<>>
    /\ root' = <<>>
    /\ files' = <<>>
    /\ local' = NoLocal
    /\ tasks' = <<>>
    /\ log' = <<>>
    /\ written' = {}
    /\ made' = {}
    /\ UNCHANGED loaderVars
    /\ UNCHANGED <<cfgVars, fs, dirs>>

----------------------------------------------------------------------------
(* DataLoader.run *)

files_to_include == <<"train.tsv", "test.tsv", "dev.tsv", "validated.tsv", "other.tsv">>

ClipPaths == {"clip1.mp3", "clip2.mp3"}
DurationValues == {1500, 2500}

\* a row of the combined table; duration_ms 0 stands for a missing value
Row(p, f, d) == [path |-> p, source_file |-> f, duration_ms |-> d]

Header == Row("path", "source_file", 0)

\* the tables a file of at most n rows can hold
SplitTables(n) == UNION {[1..k -> ClipPaths] : k \in 0..n}
DurationTables(n) ==
    UNION {[1..k -> [path : ClipPaths, duration_ms : DurationValues]] : k \in 0..n}

\* pd.read_csv of a split, and df_part["source_file"] = filename
ReadPart(table, filename) == [i \in DOMAIN table |-> Row(table[i], filename, 0)]

RECURSIVE Concat(_)
\* pd.concat(dfs, ignore_index=True)
Concat(parts) == IF parts = <<>> THEN <<>> ELSE Head(parts) \o Concat(Tail(parts))

\* the rows a left join gives for one left row
JoinRow(r, right) ==
    LET hits == SelectSeq(right, LAMBDA d : d.path = r.path)
    IN IF hits = <<>> THEN <<r>>
       ELSE [j \in DOMAIN hits |-> Row(r.path, r.source_file, hits[j].duration_ms)]

\* pd.merge(combined_df, durations_df, on="path", how="left")
Merge(left, right) == Concat([i \in DOMAIN left |-> JoinRow(left[i], right)])

\* drop_duplicates() without subset: only rows equal in every column are dropped
DropDuplicatesAllColumns(df) ==
    LET keep[i \in 0..Len(df)] ==
            IF i = 0 THEN <<>>
            ELSE IF \E j \in 1..(i - 1) : df[j] = df[i] THEN keep[i - 1]
            ELSE Append(keep[i - 1], df[i])
    IN keep[Len(df)]

\* combined_df.drop_duplicates(subset="path"): the first row of each path is kept
DropDuplicates(df) ==
    LET keep[i \in 0..Len(df)] ==
            IF i = 0 THEN <<>>
            ELSE IF \E j \in 1..(i - 1) : df[j].path = df[i].path THEN keep[i - 1]
            ELSE Append(keep[i - 1], df[i])
    IN keep[Len(df)]

\* combined_df.to_csv(out_path, sep="\t", index=False): a header line, then the rows
ToCsv(df) == <<Header>> \o df

NoArtifact == [file_path |-> "none", size_lines |-> 0, num_rows |-> 0]

LoaderIdle ==
    /\ lpc = "idle"
    /\ unread = 0
    /\ idx = 1
    /\ dfs = <<>>
    /\ durations_df = <<>>
    /\ combined_df = <<>>
    /\ before_drop = 0
    /\ out_file = <<>>
    /\ artifact = NoArtifact

InitLoader ==
    /\ lpc = "gather"
    /\ unread = MaxRows
    /\ idx = 1
    /\ dfs = <<>>
    /\ durations_df = <<>>
    /\ combined_df = <<>>
    /\ before_drop = 0
    /\ out_file = <<>>
    /\ artifact = NoArtifact

BatchIdle ==
    /\ input_dir = InDir
    /\ output_dir = <<"out">>
    /\ file_ext = <<".", "w", "a", "v">>
    /\ fs = [p \in {PathN} |-> Corrupt]
    /\ dirs = {InDir}
    /\ nodirs = {}
    /\ nowrites = {}
    /\ model_ok = TRUE
    /\ pc = "idle"
    /\ pipeline = "none"
    /\ loads = 0
    /\ stack = <<>>
    /\ root = <<>>
    /\ files = <<>>
    /\ local = NoLocal
    /\ tasks = <<>>
    /\ log = <<>>
    /\ written = {}
    /\ made = {}
    /\ rerun = FALSE
    /\ snap = [fs |-> fs, tasks |-> <<>>]

\* os.path.isfile(path) holds: the split is read; a file is read once, so the
\* rows it holds are drawn when it is read
ReadSplit ==
    /\ lpc = "gather"
    /\ idx <= Len(files_to_include)
    /\ \E table \in SplitTables(unread) :
          /\ dfs' = Append(dfs, ReadPart(table, files_to_include[idx]))
          /\ unread' = unread - Len(table)
    /\ idx' = idx + 1
    /\ UNCHANGED <<lpc, durations_df, combined_df, before_drop, out_file, artifact>>
    /\ UNCHANGED batchVars

\* the split is not in input_dir: a warning, and the next one
SplitNotFound ==
    /\ lpc = "gather"
    /\ idx <= Len(files_to_include)
    /\ idx' = idx + 1
    /\ UNCHANGED <<lpc, unread, dfs, durations_df, combined_df, before_drop, out_file,
                   artifact>>
    /\ UNCHANGED batchVars

\* if not dfs: "No valid TSV files found to merge. Exiting."
NoTables ==
    /\ lpc = "gather"
    /\ idx > Len(files_to_include)
    /\ dfs = <<>>
    /\ lpc' = "finished"
    /\ UNCHANGED <<unread, idx, dfs, durations_df, combined_df, before_drop, out_file,
                   artifact>>
    /\ UNCHANGED batchVars

\* combined_df = pd.concat(dfs, ignore_index=True)
ConcatTables ==
    /\ lpc = "gather"
    /\ idx > Len(files_to_include)
    /\ dfs # <<>>
    /\ combined_df' = Concat(dfs)
    /\ lpc' = "merge"
    /\ UNCHANGED <<unread, idx, dfs, durations_df, before_drop, out_file, artifact>>
    /\ UNCHANGED batchVars

\* clip_durations.tsv exists: it is read and joined to the combined table
MergeDurations ==
    /\ lpc = "merge"
    /\ \E table \in DurationTables(unread) :
          /\ durations_df' = table
          /\ combined_df' = Merge(combined_df, table)
          /\ unread' = unread - Len(table)
    /\ lpc' = "dedup"
    /\ UNCHANGED <<idx, dfs, before_drop, out_file, artifact>>
    /\ UNCHANGED batchVars

\* clip_durations.tsv not found: proceeding without durations
NoDurations ==
    /\ lpc = "merge"
    /\ lpc' = "dedup"
    /\ UNCHANGED <<unread, idx, dfs, durations_df, combined_df, before_drop, out_file,
                   artifact>>
    /\ UNCHANGED batchVars

\* before_drop, drop_duplicates(subset="path"), after_drop
DropByPath ==
    /\ lpc = "dedup"
    /\ before_drop' = Len(combined_df)
    /\ combined_df' = DropDuplicates(combined_df)
    /\ lpc' = "save"
    /\ UNCHANGED <<unread, idx, dfs, durations_df, out_file, artifact>>
    /\ UNCHANGED batchVars

\* os.makedirs(output_dir), combined_df.to_csv(out_path)
Save ==
    /\ lpc = "save"
    /\ out_file' = ToCsv(combined_df)
    /\ lpc' = "log"
    /\ UNCHANGED <<unread, idx, dfs, durations_df, combined_df, before_drop, artifact>>
    /\ UNCHANGED batchVars

\* artifact.metadata and run.log_artifact(artifact); the size is counted in lines
LogArtifact ==
    /\ lpc = "log"
    /\ artifact' = [file_path |-> "complete_data.tsv", size_lines |-> Len(out_file),
                    num_rows |-> Len(combined_df)]
    /\ lpc' = "finished"
    /\ UNCHANGED <<unread, idx, dfs, durations_df, combined_df, before_drop, out_file>>
    /\ UNCHANGED batchVars

NextLoader ==
    \/ ReadSplit
    \/ SplitNotFound
    \/ NoTables
    \/ ConcatTables
    \/ MergeDurations
    \/ NoDurations
    \/ DropByPath
    \/ Save
    \/ LogArtifact

InitL == InitLoader /\ BatchIdle

SpecLoader == InitL /\ [][NextLoader]_vars

----------------------------------------------------------------------------

Init == InitBatch /\ LoaderIdle

Next ==
    \/ LoadDetector
    \/ WalkDir
    \/ SkipFile
    \/ Discover
    \/ MakeDirs
    \/ Decode
    \/ Convert
    \/ DetectSpeech
    \/ Resolve
    \/ SliceAudio
    \/ Export
    \/ Finish
    \/ Restart

Spec == Init /\ [][Next]_vars

----------------------------------------------------------------------------
(* Properties of trim_with_vad *)

Terminal == {"NoSpeechSkipped", "Exported", "Failed"}

Logged(kind, p) == \E k \in DOMAIN log : log[k].kind = kind /\ log[k].path = p

InStages(t, stage) == \E k \in DOMAIN t.stages : t.stages[k] = stage

\* the stages of a file's processing, without the directory creation before them
Work(t) == SelectSeq(t.stages, LAMBDA st : st # "mkdir")

\* the qualifying files under the input root when the run started
QualifyingAtStart ==
    {p \in DOMAIN snap.fs : IsPrefix(input_dir, p.dir) /\ Qualifies(p.name, file_ext)}

Mirror(p) == ReRoot(output_dir, RelPath(p, input_dir))

\* a name whose last four characters are ".wav" in any letter case
HasWavSuffix(name) ==
    /\ Len(name) >= 4
    /\ name[Len(name) - 3] = "."
    /\ name[Len(name) - 2] \in {"w", "W"}
    /\ name[Len(name) - 1] \in {"a", "A"}
    /\ name[Len(name)] \in {"v", "V"}

\* C1: an exception raised at any stage of a file's processing, the creation of
\* its output directory included, is caught and logged with the file's path,
\* the batch is not aborted by it, and every qualifying file is still processed.
C1_FailureIsolated ==
    /\ \A i \in DOMAIN tasks :
          tasks[i].raised # "none" =>
              /\ pc # "aborted"
              /\ Logged("error", tasks[i].input_path)
    /\ (pipeline = "ready" /\ pc \in {"done", "aborted"}) =>
          \A p \in QualifyingAtStart :
              \E i \in DOMAIN tasks :
                  tasks[i].input_path = p /\ tasks[i].state \in Terminal

\* C2: when a batch run has completed, every qualifying file that was under the
\* input root has its output at the same relative path under the output root,
\* written by this run, or a logged line that names it.
C2_NoSilentLoss ==
    pc = "done" =>
        \A p \in QualifyingAtStart :
            \/ Mirror(p) \in written /\ Mirror(p) \in DOMAIN fs
            \/ \E k \in DOMAIN log : log[k].path = p

C2_Witness ==
    /\ pc = "done"
    /\ \E i, j \in DOMAIN tasks :
          tasks[i].state = "Exported" /\ tasks[j].state = "Failed"

\* C3: for a non-empty timeline the window used to slice starts at the first
\* interval's start and ends at the last interval's end, which are the extremes
\* of all intervals; the clip is the whole stretch between them, gaps included.
C3_WindowIsExtremes ==
    /\ pc \in {"slice", "export"} =>
          LET tl == local.speech_timeline
          IN /\ Len(tl) > 0
             /\ local.start_ms = 1000 * tl[1].start
             /\ local.end_ms = 1000 * tl[Len(tl)].end
             /\ \A i \in DOMAIN tl :
                   /\ local.start_ms <= 1000 * tl[i].start
                   /\ 1000 * tl[i].end <= local.end_ms
    /\ pc = "export" =>
          /\ local.trimmed_segment.from = local.start_ms
          /\ local.trimmed_segment.to = local.end_ms
    /\ \A i \in DOMAIN tasks :
          tasks[i].state = "Exported" =>
              LET tl == tasks[i].timeline
              IN fs[tasks[i].output_path].dur = tl[Len(tl)].end - tl[1].start

C3_Witness ==
    /\ pc = "export"
    /\ Len(local.speech_timeline) = 2
    /\ 0 < local.speech_timeline[1].start
    /\ local.speech_timeline[1].end < local.speech_timeline[2].start
    /\ local.trimmed_segment.to - local.trimmed_segment.from =
          1000 * (local.speech_timeline[2].end - local.speech_timeline[1].start)

\* C4: a file for which the detector returned the empty timeline ends as
\* NoSpeechSkipped: a "no speech" line names it, no error line does, it is
\* neither sliced nor exported, and its output path is left as it was.
C4_EmptyTimelineSkipped ==
    \A i \in DOMAIN tasks :
        LET t == tasks[i]
        IN (InStages(t, "detect") /\ t.timeline = <<>> /\ ~(i = Cur /\ pc = "resolve")) =>
              /\ t.state = "NoSpeechSkipped"
              /\ Logged("nospeech", t.input_path)
              /\ ~Logged("error", t.input_path)
              /\ ~InStages(t, "slice")
              /\ ~InStages(t, "export")
              /\ t.output_path \notin written
              /\ t.output_path \in DOMAIN fs <=> t.output_path \in DOMAIN snap.fs

C4_Witness ==
    \E i \in DOMAIN tasks :
        /\ tasks[i].state = "NoSpeechSkipped"
        /\ tasks[i].output_path \notin DOMAIN fs
        /\ tasks[i].output_path.dir \in dirs

\* C5: a file whose resolved window has end <= start is never sliced or
\* exported, and no clip of zero length is written.
C5_DegenerateIsNoSpeech ==
    /\ \A i \in DOMAIN tasks :
          tasks[i].state \in {"Trimmed", "Exported"} =>
              tasks[i].window.end > tasks[i].window.start
    /\ \A p \in written : fs[p].dur > 0

\* C6 as stated: when the second run ends, the files and their contents are
\* those the first run left, and the second run processed what the first did.
C6_Idempotent ==
    (rerun /\ pc \in {"done", "aborted"}) =>
        /\ fs = snap.fs
        /\ tasks = snap.tasks

\* C6 as amended: the same, for an output root that lies outside the input tree.
C6_IdempotentOutsideInput ==
    (rerun /\ pc \in {"done", "aborted"} /\ ~IsPrefix(input_dir, output_dir)) =>
        /\ fs = snap.fs
        /\ tasks = snap.tasks

C6_Witness ==
    /\ rerun
    /\ pc = "done"
    /\ ~IsPrefix(input_dir, output_dir)
    /\ Cardinality(written) = 2

\* C7: the detector is set up at most once in a run and before the walk starts:
\* while it is not set up nothing is listed, discovered, created or written, and
\* a failed set-up leaves it so; every file is processed with that one set-up.
C7_DetectorOnce ==
    /\ loads <= 1
    /\ pipeline = "none" =>
          /\ tasks = <<>>
          /\ root = <<>>
          /\ stack = <<>>
          /\ made = {}
          /\ written = {}
          /\ log = <<>>
          /\ fs = snap.fs
    /\ (~model_ok /\ pc # "load") => (pc = "aborted" /\ pipeline = "none")
    /\ tasks # <<>> => (loads = 1 /\ pipeline = "ready")

C7_Witness ==
    /\ pc = "done"
    /\ loads = 1
    /\ Len(tasks) = 2
    /\ \A i \in DOMAIN tasks : InStages(tasks[i], "detect")

\* C8: only files whose name ends, in any letter case, with the extension are
\* given a task or an output path, are decoded, logged or written; the other
\* file of the tree stays as it was and no output appears for it.
C8_OnlyQualifying ==
    /\ \A i \in DOMAIN tasks :
          /\ HasWavSuffix(tasks[i].input_path.name)
          /\ HasWavSuffix(tasks[i].output_path.name)
    /\ \A k \in DOMAIN log : HasWavSuffix(log[k].path.name)
    /\ \A p \in written : HasWavSuffix(p.name)
    /\ pc \in {"mkdir", "decode", "convert", "detect", "resolve", "slice", "export"} =>
          HasWavSuffix(local.input_path.name)
    /\ \A p \in DOMAIN fs :
          ~HasWavSuffix(p.name) => (p \in DOMAIN snap.fs /\ fs[p] = snap.fs[p])

C8_Witness ==
    /\ pc = "done"
    /\ file_ext = <<".", "w", "a", "v">>
    /\ \E i \in DOMAIN tasks : tasks[i].input_path = PathB /\ tasks[i].state = "Exported"
    /\ PathN \in DOMAIN fs

SpecOrder == <<"decode", "detect", "resolve", "convert", "slice", "export">>
CodeOrder == <<"decode", "convert", "detect", "resolve", "slice", "export">>

\* a file's state agrees with the stages it has passed, in the given order
Lifecycle(t, order) ==
    /\ IsPrefix(Work(t), order)
    /\ t.state = "Discovered" => Work(t) = <<>>
    /\ t.state = "Decoded" => (InStages(t, "decode") /\ ~InStages(t, "detect"))
    /\ t.state = "Detected" => (InStages(t, "detect") /\ ~InStages(t, "slice"))
    /\ t.state = "NoSpeechSkipped" =>
          (InStages(t, "resolve") /\ ~InStages(t, "slice") /\ t.timeline = <<>>)
    /\ t.state = "Trimmed" => (Work(t) = SubSeq(order, 1, 5) /\ t.timeline # <<>>)
    /\ t.state = "Exported" => (Work(t) = order /\ t.timeline # <<>>)
    /\ t.state = "Failed" => t.raised \in {order[k] : k \in DOMAIN order}
    /\ t.state # "Failed" => t.raised \in {"none", "mkdir"}

----------------------------------------------------------------------------
(* Properties of DataLoader.run *)

\* C9: complete_data.tsv, when written, holds no two rows with the same path,
\* it is written exactly when a split was found, and the row count of the
\* artifact's metadata is the number of rows written.
C9_DedupedByPath ==
    /\ out_file # <<>> =>
          /\ out_file[1] = Header
          /\ dfs # <<>>
          /\ \A i, j \in 2..Len(out_file) : i # j => out_file[i].path # out_file[j].path
    /\ lpc = "finished" => (out_file # <<>> <=> dfs # <<>>)
    /\ (lpc = "finished" /\ out_file # <<>>) => artifact.num_rows = Len(out_file) - 1

C9_Witness ==
    /\ lpc = "finished"
    /\ Len(dfs) >= 2
    /\ Len(durations_df) >= 2
    /\ durations_df[1].path = durations_df[2].path
    /\ before_drop > Len(combined_df)
    /\ artifact.num_rows = 1

====
